---- MODULE Spec2Model ----
(***************************************************************************)
(* Model of the request layer of eodhp-stac-fastapi: datetime validation   *)
(* of the collection-search POST model, bearer-token header extraction,    *)
(* response wrapping with the cache-control policy, route dispatch of the  *)
(* transaction extension, the endpoint wrapper that ties them, and the     *)
(* bbox, limit and list-parameter converters and validators.               *)
(*                                                                         *)
(* Strings are sequences of tokens.  "/" , "." and "," are the characters  *)
(* the code splits or compares on; every other token is an atomic piece of *)
(* text holding none of them.                                              *)
(***************************************************************************)
EXTENDS Integers, Sequences, FiniteSets, TLC

VARIABLES
    cls_start_date,  \* BaseCollectionSearchPostRequest._start_date as set on the class
    cls_end_date,    \* BaseCollectionSearchPostRequest._end_date as set on the class
    dt,              \* one run of the datetime field validator: input and outcome
    auth,            \* one run of extract_headers: credentials and outcome
    wr,              \* one run of _wrap_response: arguments and response
    rt,              \* one dispatch through the transaction router
    req,             \* the requests in flight through an endpoint
    settings,        \* the module-level values of api/settings.py
    bb,              \* one run of the bbox field validator: input and outcome
    bq,              \* one GET request carrying a bbox query string
    lim,             \* one validation of a limit
    ls,              \* one conversion of a list parameter
    cm,              \* one call of create_request_model
    uri,             \* one validation of a cat_path by a request model
    rd,              \* one call of add_route_dependencies on a list of routes
    conf,            \* a core client, its extensions and the shared base list
    ep               \* one endpoint of create_async_endpoint and its requests' tasks

\* The runs of the parameter converters and validators.
paramVars == <<bb, bq, lim, ls>>

\* The application set-up: schema composition, path models, route
\* dependencies and conformance classes.
appVars == <<cm, uri, rd, conf, ep>>

vars == <<cls_start_date, cls_end_date, dt, auth, wr, rt, req, settings, paramVars, appVars>>

(***************************************************************************)
(* Bounds of the model.                                                    *)
(***************************************************************************)
MaxDtLen == 5        \* longest datetime string, in tokens
MaxWorkspaces == 3   \* longest workspaces claim of a token
MaxSegs == 5         \* most segments of a dispatched path
MaxWrapSegs == 3     \* most segments of a path handed to _wrap_response
NumReqs == 2         \* requests in flight through the endpoints
MaxBboxParts == 6    \* most comma-separated parts of a bbox query string
MaxLimitDelta == 30   \* how far below and above the cap the limits go
MaxListLen == 5       \* longest list-parameter string, in tokens
MaxExtensions == 2    \* most extensions handed to create_request_model
MaxMixins == 2        \* most mixins handed to create_request_model
MaxCatPathLen == 5    \* longest cat_path, in tokens
NumTasks == 3         \* requests an endpoint serves at once
PoolSize == 2         \* worker threads of the pool
MaxScopes == 2       \* scopes given to one call of add_route_dependencies
MaxDeps == 2         \* dependencies given to one call of add_route_dependencies
MaxCalls == 3        \* calls of the conformance listings on one client

(***************************************************************************)
(* Python values.                                                          *)
(***************************************************************************)
\* Optional[T]: None is the empty tuple, a value x is <<x>>.
None == <<>>
Some(x) == <<x>>
IsNone(o) == o = <<>>
Unwrap(o) == o[1]

\* Optional[datetime] as an integer: 0 is None, instants are 1, 2, ...
NoneDt == 0
\* A class attribute that was never assigned on the class.
Unset == -1

\* All sequences over S of length at most n.
RECURSIVE SeqsUpTo(_, _)
SeqsUpTo(S, n) ==
    IF n = 0 THEN {<<>>}
    ELSE LET shorter == SeqsUpTo(S, n - 1)
         IN  shorter \cup {Append(s, x) : s \in {t \in shorter : Len(t) = n - 1}, x \in S}

\* Index of the first sep in s, 0 when there is none.
RECURSIVE IndexOf(_, _, _)
IndexOf(s, sep, i) ==
    IF i > Len(s) THEN 0
    ELSE IF s[i] = sep THEN i
    ELSE IndexOf(s, sep, i + 1)

\* str.split(sep): the pieces between the separators, empty pieces kept.
RECURSIVE StrSplit(_, _)
StrSplit(s, sep) ==
    LET i == IndexOf(s, sep, 1)
    IN  IF i = 0 THEN <<s>>
        ELSE <<SubSeq(s, 1, i - 1)>> \o StrSplit(SubSeq(s, i + 1, Len(s)), sep)

\* sep.join(parts)
RECURSIVE StrJoin(_, _)
StrJoin(parts, sep) ==
    IF Len(parts) = 0 THEN <<>>
    ELSE IF Len(parts) = 1 THEN parts[1]
    ELSE parts[1] \o <<sep>> \o StrJoin(Tail(parts), sep)

\* str.startswith(prefix)
StartsWith(s, prefix) ==
    /\ Len(s) >= Len(prefix)
    /\ SubSeq(s, 1, Len(prefix)) = prefix

(***************************************************************************)
(* Datetime validation of the collection-search POST model.                *)
(***************************************************************************)
\* Tokens of a datetime string.  T1, T1b and T2 are complete RFC 3339
\* timestamps: T1b spells the instant of T1 with another UTC offset.
DtAlphabet == {"/", ".", "T1", "T1b", "T2", "x"}

\* The instant a complete timestamp denotes.
Instant(tok) ==
    CASE tok = "T1" -> 1
      [] tok = "T1b" -> 1
      [] tok = "T2" -> 2
      [] OTHER -> NoneDt

\* SearchDatetime.validate_strings(v, strict=True): a segment parses when it
\* is exactly one complete timestamp.
IsRfc3339(seg) == Len(seg) = 1 /\ seg[1] \in {"T1", "T1b", "T2"}
ParseRfc3339(seg) == Instant(seg[1])

\* values = [v if v and v != ".." else None for v in value.split("/")]
DtSegments(value) ==
    LET parts == StrSplit(value, "/")
    IN  [i \in 1..Len(parts) |->
            IF parts[i] # <<>> /\ parts[i] # <<".", ".">> THEN Some(parts[i]) ELSE None]

DtPair_OpenEnd(values) == IF Len(values) = 1 THEN <<values[1], None>> ELSE values
\* if len(values) == 1: values = [values[0], values[0]]
DtPair(values) == IF Len(values) = 1 THEN <<values[1], values[1]>> ELSE values

DtOrderViolated_Strict(d0, d1) == d0 # NoneDt /\ d1 # NoneDt /\ d0 >= d1
\* if dates[0] and dates[1] and dates[0] > dates[1]
DtOrderViolated(d0, d1) == d0 # NoneDt /\ d1 # NoneDt /\ d0 > d1

DtFail(e, value) == [ok |-> FALSE, err |-> e, value |-> value, start |-> NoneDt, end |-> NoneDt]

ValidateDatetime_ParseFirst(value) ==
    LET values == DtSegments(value)
        bad(i) == ~IsNone(values[i]) /\ ~IsRfc3339(Unwrap(values[i]))
    IN  IF \E i \in 1..Len(values) : bad(i) THEN DtFail("not_rfc3339", value)
        ELSE IF Len(values) > 2 THEN DtFail("too_many_values", value)
        ELSE
        LET pair == DtPair(values)
            date(i) == IF IsNone(pair[i]) THEN NoneDt ELSE ParseRfc3339(Unwrap(pair[i]))
        IN  IF DtOrderViolated(date(1), date(2)) THEN DtFail("begin_after_end", value)
            ELSE [ok |-> TRUE, err |-> "none", value |-> value,
                  start |-> date(1), end |-> date(2)]

\* The outcome of validate_datetime on value: the error it raises, or the
\* string it returns and the two dates it stores.
ValidateDatetime(value) ==
    LET values == DtSegments(value)
    IN  IF Len(values) > 2 THEN DtFail("too_many_values", value)
        ELSE
        LET pair == DtPair(values)
            bad(i) == ~IsNone(pair[i]) /\ ~IsRfc3339(Unwrap(pair[i]))
            date(i) == IF IsNone(pair[i]) THEN NoneDt ELSE ParseRfc3339(Unwrap(pair[i]))
        IN  IF bad(1) \/ bad(2) THEN DtFail("not_rfc3339", value)
            ELSE IF DtOrderViolated(date(1), date(2)) THEN DtFail("begin_after_end", value)
            ELSE [ok |-> TRUE, err |-> "none", value |-> value,
                  start |-> date(1), end |-> date(2)]

\* The class attributes after the validator ran with outcome res.
StoredStart_End(res, old) == IF res.ok THEN res.end ELSE old
StoredStart_ClearOnFail(res, old) == IF res.ok THEN res.start ELSE NoneDt
StoredStart(res, old) == IF res.ok THEN res.start ELSE old
StoredEnd(res, old) == IF res.ok THEN res.end ELSE old

\* self._start_date: the class attribute when one was assigned, else the
\* instance's private default None.
ReadPrivate(clsAttr) == IF clsAttr = Unset THEN NoneDt ELSE clsAttr

DtStrings == SeqsUpTo(DtAlphabet, MaxDtLen)

(***************************************************************************)
(* Settings (api/settings.py), read once at import.                        *)
(***************************************************************************)
DefaultCacheControl == "max-age=300, stale-while-revalidate=300"
NoCache == "max-age=0"

\* Values of the two environment variables: the defaults, a two-name
\* allow-list with another duration, and an empty CACHE_CONTROL_CATALOGS.
Environments ==
    { [CACHE_CONTROL_HEADERS |-> DefaultCacheControl, CACHE_CONTROL_CATALOGS |-> <<"sd">>],
      [CACHE_CONTROL_HEADERS |-> "max-age=60", CACHE_CONTROL_CATALOGS |-> <<"sd", ",", "c1">>],
      [CACHE_CONTROL_HEADERS |-> DefaultCacheControl, CACHE_CONTROL_CATALOGS |-> <<>>] }

LoadSettings(env) ==
    [CACHE_CONTROL_HEADERS |-> env.CACHE_CONTROL_HEADERS,
     CACHE_CONTROL_CATALOGS_LIST |-> StrSplit(env.CACHE_CONTROL_CATALOGS, ",")]

InList(x, list) == \E i \in 1..Len(list) : list[i] = x

(***************************************************************************)
(* _wrap_response (api/routes.py).                                         *)
(***************************************************************************)
\* Backend results: None, an empty document (falsy) and a document.
Results == {None, Some("{}"), Some("doc")}
Verbs == {"GET", "POST", "PUT", "DELETE"}

JSONResponse(content, cc) ==
    [status |-> 200, body |-> Some(content), cache_control |-> cc]
NoContentResponse(cc) ==
    [status |-> 204, body |-> None, cache_control |-> cc]

\* resp is not None
HasResult_Truthy(resp) == ~IsNone(resp) /\ Unwrap(resp) # "{}"
HasResult(resp) == ~IsNone(resp)

\* verb == "GET"
IsGet_NotPost(verb) == verb # "POST"
IsGet(verb) == verb = "GET"

\* url_path.startswith("/catalogs/")
UnderCatalogs(url_path) == StartsWith(url_path, <<"/", "catalogs", "/">>)

\* url_path.split("/")[2]
RootCatalog_OffByOne(url_path) == StrSplit(url_path, "/")[2]
RootCatalog(url_path) == StrSplit(url_path, "/")[3]

\* url_path == "/"
IsRootPath_Empty(url_path) == url_path = <<>>
IsRootPath(url_path) == url_path = <<"/">>

WrapResponse(resp, verb, url_path, cfg) ==
    IF HasResult(resp) THEN
        IF IsGet(verb) /\ UnderCatalogs(url_path)
              /\ InList(RootCatalog(url_path), cfg.CACHE_CONTROL_CATALOGS_LIST)
        THEN JSONResponse(Unwrap(resp), cfg.CACHE_CONTROL_HEADERS)
        ELSE IF IsGet(verb) /\ ~UnderCatalogs(url_path) /\ IsRootPath(url_path)
        THEN JSONResponse(Unwrap(resp), cfg.CACHE_CONTROL_HEADERS)
        ELSE JSONResponse(Unwrap(resp), NoCache)
    ELSE NoContentResponse(NoCache)

\* Paths: a leading slash, then segments joined by slashes.
PathsOf(segSet, n) == {<<"/">> \o StrJoin(segs, "/") : segs \in SeqsUpTo(segSet, n)}

\* Segments of the paths handed to _wrap_response: empty, "catalogs", the
\* allow-listed name, another name, and a name that starts like the
\* allow-listed one.
WrapSegs == {<<>>, <<"catalogs">>, <<"sd">>, <<"c1">>, <<"sd", "c1">>}
WrapPaths == PathsOf(WrapSegs, MaxWrapSegs)

(***************************************************************************)
(* extract_headers (api/routes.py).                                        *)
(***************************************************************************)
WorkspaceNames == {"w1", "w2"}
\* The user_services claim: absent, the empty string, a name.
UserServices == {None, Some(""), Some("svc1"), Some("svc2")}

\* The claims of a token: workspaces (absent or a list), user_services.
TokenClaims ==
    [workspaces : {None} \cup {Some(l) : l \in SeqsUpTo(WorkspaceNames, MaxWorkspaces)},
     user_services : UserServices]

\* HTTPAuthorizationCredentials: a token that decodes to its claims, or one
\* that jwt.decode rejects.
Tokens == {[wellformed |-> TRUE, claims |-> c] : c \in TokenClaims}
              \cup {[wellformed |-> FALSE, claims |-> None]}
Credentials == {None} \cup {Some(t) : t \in Tokens}

\* decoded_jwt.get(key, default) for an optional claim
ClaimGet(claim, default) == IF IsNone(claim) THEN default ELSE Unwrap(claim)

\* list.append(x): the list grows in place and the call returns None.
ListAppend(l, x) == [list |-> Append(l, x), ret |-> None]

\* Truth value of the user_services claim.
Truthy(us) == ~IsNone(us) /\ Unwrap(us) # ""

AuthHeaders(ws, authenticated) == [X_Workspaces |-> ws, X_Authenticated |-> authenticated]

ExtractHeaders_AuthByWorkspaces(credentials) ==
    IF IsNone(credentials) THEN [raised |-> FALSE, headers |-> AuthHeaders(Some(<<>>), FALSE)]
    ELSE IF ~Unwrap(credentials).wellformed THEN [raised |-> TRUE, headers |-> AuthHeaders(None, FALSE)]
    ELSE LET ws == ClaimGet(Unwrap(credentials).claims.workspaces, <<>>)
         IN  [raised |-> FALSE, headers |-> AuthHeaders(Some(ws), ws # <<>>)]

\* The headers extract_headers returns, or that jwt.decode raised.
ExtractHeaders(credentials) ==
    IF ~IsNone(credentials) THEN
        LET token == Unwrap(credentials)
        IN  IF ~token.wellformed
            THEN [raised |-> TRUE, headers |-> AuthHeaders(None, FALSE)]
            ELSE
            LET workspaces == ClaimGet(token.claims.workspaces, <<>>)
                user_services == token.claims.user_services
                xws == IF Truthy(user_services)
                       THEN ListAppend(workspaces, Unwrap(user_services)).ret
                       ELSE Some(workspaces)
            IN  [raised |-> FALSE, headers |-> AuthHeaders(xws, TRUE)]
    ELSE [raised |-> FALSE, headers |-> AuthHeaders(Some(<<>>), FALSE)]

(***************************************************************************)
(* Routes of the transaction extension and their dispatch.                 *)
(***************************************************************************)
Lit(text) == [kind |-> "lit", text |-> text]
StrParam(name) == [kind |-> "str", name |-> name]
PathParam(name) == [kind |-> "path", name |-> name]

\* ^([^/]+)(/catalogs/[^/]+)*$  (CatalogUri.cat_path)
CatPathGrammar(cat_path) ==
    LET segs == StrSplit(cat_path, "/")
    IN  /\ Len(segs) % 2 = 1
        /\ \A i \in 1..Len(segs) :
              IF i % 2 = 1 THEN segs[i] # <<>> ELSE segs[i] = <<"catalogs">>

\* root$|(^([^/]+)(/catalogs/[^/]+)*$)  (CreateCatalogUri.cat_path), searched
\* anywhere in the string.
CreateCatPathGrammar(cat_path) ==
    \/ (Len(cat_path) >= 1 /\ cat_path[Len(cat_path)] = "root")
    \/ CatPathGrammar(cat_path)

Route(name, method, template, handler, model) ==
    [name |-> name, method |-> method, template |-> template,
     handler |-> handler, model |-> model]

CatalogsPrefix == <<Lit("catalogs"), PathParam("cat_path")>>

\* The router's routes, in the order TransactionExtension.register adds them.
TransactionRoutes ==
    << Route("Create Item", "POST",
             CatalogsPrefix \o <<Lit("collections"), StrParam("collection_id"), Lit("items")>>,
             "create_item", "CatalogUri"),
       Route("Update Item", "PUT",
             CatalogsPrefix \o <<Lit("collections"), StrParam("collection_id"), Lit("items"), StrParam("item_id")>>,
             "update_item", "CatalogUri"),
       Route("Delete Item", "DELETE",
             CatalogsPrefix \o <<Lit("collections"), StrParam("collection_id"), Lit("items"), StrParam("item_id")>>,
             "delete_item", "CatalogUri"),
       Route("Update Catalog Access Policy", "PUT",
             CatalogsPrefix \o <<Lit("access-policy")>>,
             "update_catalog_access_policy", "CatalogUri"),
       Route("Update Collection Access Policy", "PUT",
             CatalogsPrefix \o <<Lit("collections"), StrParam("collection_id"), Lit("access-policy")>>,
             "update_collection_access_policy", "CatalogUri"),
       Route("Create Collection", "POST",
             CatalogsPrefix \o <<Lit("collections")>>,
             "create_collection", "CreateCatalogUri"),
       Route("Update Collection", "PUT",
             CatalogsPrefix \o <<Lit("collections"), StrParam("collection_id")>>,
             "update_collection", "CatalogUri"),
       Route("Delete Collection", "DELETE",
             CatalogsPrefix \o <<Lit("collections"), StrParam("collection_id")>>,
             "delete_collection", "CatalogUri"),
       Route("Create Catalog", "POST",
             CatalogsPrefix \o <<Lit("catalogs")>>,
             "create_catalog", "CreateCatalogUri"),
       Route("Create Root Catalog", "POST",
             <<Lit("catalogs")>>,
             "create_catalog", "PostRootCatalog"),
       Route("Update Catalog", "PUT",
             CatalogsPrefix,
             "update_catalog", "CatalogUri"),
       Route("Delete Catalog", "DELETE",
             CatalogsPrefix,
             "delete_catalog", "CatalogUri") >>

\* Position of the {name:path} parameter in a template, 0 without one.
PathParamAt(template) ==
    IF \E i \in 1..Len(template) : template[i].kind = "path"
    THEN CHOOSE i \in 1..Len(template) : template[i].kind = "path"
    ELSE 0

\* One template element against one path segment: a literal matches itself,
\* a {name} parameter any non-empty segment.
ElemMatches(elem, seg) ==
    IF elem.kind = "lit" THEN seg = <<elem.text>> ELSE seg # <<>>

\* The path regex of a route against the segments after the leading slash.
\* The {name:path} parameter is ".*": it takes every segment the elements
\* around it leave, slashes included, and at least the (maybe empty) one.
PathMatches(template, segs) ==
    LET k == Len(template)
        n == Len(segs)
        p == PathParamAt(template)
    IN  IF p = 0
        THEN n = k /\ \A i \in 1..k : ElemMatches(template[i], segs[i])
        ELSE /\ n >= k
             /\ \A i \in 1..(p - 1) : ElemMatches(template[i], segs[i])
             /\ \A i \in (p + 1)..k : ElemMatches(template[i], segs[n - (k - i)])

\* The value the regex captures for cat_path.
CapturedCatPath(template, segs) ==
    LET k == Len(template)
        n == Len(segs)
        p == PathParamAt(template)
    IN  IF p = 0 THEN None
        ELSE Some(StrJoin(SubSeq(segs, p, n - (k - p)), "/"))

\* Segments of a request path: the pieces after the leading slash.
PathSegs(path) == Tail(StrSplit(path, "/"))

\* route.matches(scope): "full", "partial" (the path alone) or "none".
RouteMatch(route, method, path) ==
    IF Len(path) >= 1 /\ path[1] = "/" /\ PathMatches(route.template, PathSegs(path))
    THEN IF route.method = method THEN "full" ELSE "partial"
    ELSE "none"

\* The first route that matches in full, else the first partial one, else 0.
FirstMatch(routes, method, path) ==
    LET full == {i \in 1..Len(routes) : RouteMatch(routes[i], method, path) = "full"}
        partial == {i \in 1..Len(routes) : RouteMatch(routes[i], method, path) = "partial"}
        least(S) == CHOOSE i \in S : \A j \in S : i <= j
    IN  IF full # {} THEN [kind |-> "full", index |-> least(full)]
        ELSE IF partial # {} THEN [kind |-> "partial", index |-> least(partial)]
        ELSE [kind |-> "none", index |-> 0]

\* Validation of the path parameters by the route's request model.
PathParamsValid(model, cat_path) ==
    CASE model = "CatalogUri" -> CatPathGrammar(Unwrap(cat_path))
      [] model = "CreateCatalogUri" -> CreateCatPathGrammar(Unwrap(cat_path))
      [] OTHER -> TRUE

\* What a request gets: the handler that runs it (status 0 stands for the
\* handler's own), or 404, 405, or 422 from the request model.
Dispatch(routes, method, path) ==
    LET m == FirstMatch(routes, method, path)
    IN  IF m.kind = "none" THEN [status |-> 404, route |-> "", handler |-> "", cat_path |-> None]
        ELSE
        LET route == routes[m.index]
            cat == CapturedCatPath(route.template, PathSegs(path))
        IN  IF m.kind = "partial"
            THEN [status |-> 405, route |-> route.name, handler |-> "", cat_path |-> cat]
            ELSE IF ~PathParamsValid(route.model, cat)
            THEN [status |-> 422, route |-> route.name, handler |-> "", cat_path |-> cat]
            ELSE [status |-> 0, route |-> route.name, handler |-> route.handler, cat_path |-> cat]

RouteSegs == {<<>>, <<"catalogs">>, <<"collections">>, <<"access-policy">>, <<"items">>, <<"c1">>}
RoutePaths == PathsOf(RouteSegs, MaxSegs)
RouteMethods == {"POST", "PUT", "DELETE"}

(***************************************************************************)
(* The endpoint create_async_endpoint builds, around concurrent requests.  *)
(***************************************************************************)
Reqs == 1..NumReqs

DefaultEnvironment ==
    [CACHE_CONTROL_HEADERS |-> DefaultCacheControl, CACHE_CONTROL_CATALOGS |-> <<"sd">>]

SearchPath == <<"/", "collection-search">>
MemberToken ==
    [wellformed |-> TRUE, claims |-> [workspaces |-> Some(<<"w1">>), user_services |-> None]]

MalformedToken == [wellformed |-> FALSE, claims |-> None]

\* Requests the endpoints receive: collection-search POSTs whose body has no
\* datetime, an instant, a closed interval or a reversed one, and GETs of
\* the landing page, one of them with a token that does not decode.
EndpointInputs ==
    {[verb |-> "POST", path |-> SearchPath, credentials |-> c, datetime |-> d] :
        c \in {None, Some(MemberToken)},
        d \in {None, Some(<<"T1">>), Some(<<"T1", "/", "T2">>), Some(<<"T2", "/", "T1">>)}}
    \cup {[verb |-> "GET", path |-> <<"/">>, credentials |-> None, datetime |-> None],
          [verb |-> "GET", path |-> <<"/">>, credentials |-> Some(MalformedToken),
           datetime |-> None]}

\* What the backend callable does: return None, an empty document or a
\* document, or raise.
BackendOutcomes == {"none", "empty", "doc", "raise"}

IdleRequest ==
    [pc |-> "idle", verb |-> "", path |-> <<>>, credentials |-> None, datetime |-> None,
     headers |-> None, calls |-> 0, seen_start |-> Unset, seen_end |-> Unset,
     result |-> None, response |-> None]

\* A request arrives at its endpoint.
Receive(r) ==
    /\ req[r].pc = "idle"
    /\ \E inp \in EndpointInputs :
          req' = [req EXCEPT ![r] =
                    [IdleRequest EXCEPT !.pc = "received", !.verb = inp.verb, !.path = inp.path,
                                        !.credentials = inp.credentials,
                                        !.datetime = inp.datetime]]
    /\ UNCHANGED <<cls_start_date, cls_end_date, dt, auth, wr, rt, settings,
                 paramVars, appVars>>

\* headers=Depends(extract_headers)
ResolveHeaders(r) ==
    /\ req[r].pc = "received"
    /\ LET h == ExtractHeaders(req[r].credentials)
       IN  req' = [req EXCEPT ![r] =
                     IF h.raised THEN [@ EXCEPT !.pc = "failed"]
                     ELSE [@ EXCEPT !.pc = "headers", !.headers = Some(h.headers)]]
    /\ UNCHANGED <<cls_start_date, cls_end_date, dt, auth, wr, rt, settings,
                 paramVars, appVars>>

\* The body is validated into request_data (the datetime validator runs when
\* the field is given) and _endpoint starts: await func(request_data, ...).
ValidateAndCall(r) ==
    /\ req[r].pc = "headers"
    /\ IF IsNone(req[r].datetime)
       THEN /\ req' = [req EXCEPT ![r] = [@ EXCEPT !.pc = "awaiting", !.calls = @ + 1]]
            /\ UNCHANGED <<cls_start_date, cls_end_date>>
       ELSE LET res == ValidateDatetime(Unwrap(req[r].datetime))
            IN  /\ cls_start_date' = StoredStart(res, cls_start_date)
                /\ cls_end_date' = StoredEnd(res, cls_end_date)
                /\ req' = [req EXCEPT ![r] =
                             IF res.ok THEN [@ EXCEPT !.pc = "awaiting", !.calls = @ + 1]
                             ELSE [@ EXCEPT !.pc = "rejected"]]
    /\ UNCHANGED <<dt, auth, wr, rt, settings,
                 paramVars, appVars>>

\* The backend callable finishes: a search reads request_data.start_date and
\* end_date, then returns or raises.
BackendReturn(r) ==
    /\ req[r].pc = "awaiting"
    /\ \E out \in BackendOutcomes :
          LET read == [req[r] EXCEPT
                          !.seen_start = IF req[r].verb = "POST" THEN ReadPrivate(cls_start_date) ELSE @,
                          !.seen_end = IF req[r].verb = "POST" THEN ReadPrivate(cls_end_date) ELSE @]
          IN  req' = [req EXCEPT ![r] =
                        CASE out = "raise" -> [read EXCEPT !.pc = "raised"]
                          [] out = "none" -> [read EXCEPT !.pc = "returned", !.result = None]
                          [] out = "empty" -> [read EXCEPT !.pc = "returned", !.result = Some("{}")]
                          [] out = "doc" -> [read EXCEPT !.pc = "returned", !.result = Some("doc")]]
    /\ UNCHANGED <<cls_start_date, cls_end_date, dt, auth, wr, rt, settings,
                 paramVars, appVars>>

\* return _wrap_response(<result>, request.method, request.url.path)
Respond(r) ==
    /\ req[r].pc = "returned"
    /\ req' = [req EXCEPT ![r] =
                 [@ EXCEPT !.pc = "responded",
                           !.response = Some(WrapResponse(req[r].result, req[r].verb,
                                                            req[r].path, settings))]]
    /\ UNCHANGED <<cls_start_date, cls_end_date, dt, auth, wr, rt, settings,
                 paramVars, appVars>>

DtOff == [pc |-> "off"]
AuthOff == [pc |-> "off"]
WrOff == [pc |-> "off"]
RtOff == [pc |-> "off"]
ReqOff == [r \in Reqs |-> IdleRequest]
BbOff == [pc |-> "off"]
BqOff == [pc |-> "off"]
LimOff == [pc |-> "off"]
LsOff == [pc |-> "off"]
ParamsOff == bb = BbOff /\ bq = BqOff /\ lim = LimOff /\ ls = LsOff
CmOff == [pc |-> "off"]
UriOff == [pc |-> "off"]
RdOff == [pc |-> "off"]
ConfOff == [pc |-> "off"]
EpOff == [pc |-> "off"]
AppOff == cm = CmOff /\ uri = UriOff /\ rd = RdOff /\ conf = ConfOff /\ ep = EpOff

Init ==
    /\ cls_start_date = Unset
    /\ cls_end_date = Unset
    /\ settings = LoadSettings(DefaultEnvironment)
    /\ req = [r \in Reqs |-> IdleRequest]
    /\ dt = DtOff /\ auth = AuthOff /\ wr = WrOff /\ rt = RtOff
    /\ ParamsOff
    /\ AppOff

Next ==
    \E r \in Reqs :
        \/ Receive(r)
        \/ ResolveHeaders(r)
        \/ ValidateAndCall(r)
        \/ BackendReturn(r)
        \/ Respond(r)

Spec == Init /\ [][Next]_vars

(***************************************************************************)
(* The datetime validator alone, on every string, one string after another *)
(* in one process.                                                         *)
(***************************************************************************)
InitDatetime ==
    /\ cls_start_date = Unset
    /\ cls_end_date = Unset
    /\ settings = LoadSettings(DefaultEnvironment)
    /\ dt \in {[pc |-> "start", value |-> v, res |-> DtFail("none", <<>>)] : v \in DtStrings}
    /\ auth = AuthOff /\ wr = WrOff /\ rt = RtOff /\ req = ReqOff
    /\ ParamsOff
    /\ AppOff

RunValidateDatetime ==
    /\ dt.pc = "start"
    /\ LET res == ValidateDatetime(dt.value)
       IN  /\ dt' = [pc |-> "done", value |-> dt.value, res |-> res]
           /\ cls_start_date' = StoredStart(res, cls_start_date)
           /\ cls_end_date' = StoredEnd(res, cls_end_date)
    /\ UNCHANGED <<auth, wr, rt, req, settings,
                 paramVars, appVars>>

NextDatetime == RunValidateDatetime

SpecDatetime == InitDatetime /\ [][NextDatetime]_vars

(***************************************************************************)
(* extract_headers alone, on every credential.                             *)
(***************************************************************************)
InitAuth ==
    /\ auth \in {[pc |-> "start", credentials |-> c, out |-> ExtractHeaders(None)] : c \in Credentials}
    /\ cls_start_date = Unset /\ cls_end_date = Unset
    /\ settings = LoadSettings(DefaultEnvironment)
    /\ dt = DtOff /\ wr = WrOff /\ rt = RtOff /\ req = ReqOff
    /\ ParamsOff
    /\ AppOff

RunExtractHeaders ==
    /\ auth.pc = "start"
    /\ auth' = [auth EXCEPT !.pc = "done", !.out = ExtractHeaders(auth.credentials)]
    /\ UNCHANGED <<cls_start_date, cls_end_date, dt, wr, rt, req, settings,
                 paramVars, appVars>>

NextAuth == RunExtractHeaders

SpecAuth == InitAuth /\ [][NextAuth]_vars

(***************************************************************************)
(* _wrap_response alone, on every result, verb, path and configuration.    *)
(***************************************************************************)
InitWrap ==
    /\ settings \in {LoadSettings(env) : env \in Environments}
    /\ wr \in {[pc |-> "start", resp |-> x, verb |-> v, url_path |-> p,
                out |-> NoContentResponse("")] :
                   x \in Results, v \in Verbs, p \in WrapPaths}
    /\ cls_start_date = Unset /\ cls_end_date = Unset
    /\ dt = DtOff /\ auth = AuthOff /\ rt = RtOff /\ req = ReqOff
    /\ ParamsOff
    /\ AppOff

RunWrapResponse ==
    /\ wr.pc = "start"
    /\ wr' = [wr EXCEPT !.pc = "done",
                        !.out = WrapResponse(wr.resp, wr.verb, wr.url_path, settings)]
    /\ UNCHANGED <<cls_start_date, cls_end_date, dt, auth, rt, req, settings,
                 paramVars, appVars>>

NextWrap == RunWrapResponse

SpecWrap == InitWrap /\ [][NextWrap]_vars

(***************************************************************************)
(* Dispatch through the transaction router alone, on every method and path.*)
(***************************************************************************)
InitRoute ==
    /\ rt \in {[pc |-> "start", method |-> m, path |-> p,
                out |-> Dispatch(<<>>, m, p)] : m \in RouteMethods, p \in RoutePaths}
    /\ cls_start_date = Unset /\ cls_end_date = Unset
    /\ settings = LoadSettings(DefaultEnvironment)
    /\ dt = DtOff /\ auth = AuthOff /\ wr = WrOff /\ req = ReqOff
    /\ ParamsOff
    /\ AppOff

RunDispatch ==
    /\ rt.pc = "start"
    /\ rt' = [rt EXCEPT !.pc = "done", !.out = Dispatch(TransactionRoutes, rt.method, rt.path)]
    /\ UNCHANGED <<cls_start_date, cls_end_date, dt, auth, wr, req, settings,
                 paramVars, appVars>>

NextRoute == RunDispatch

SpecRoute == InitRoute /\ [][NextRoute]_vars

(***************************************************************************)
(* validate_bbox of the collection-search POST model.  A bbox is a tuple   *)
(* of 4 numbers (xmin, ymin, xmax, ymax) or of 6 (xmin, ymin, zmin, xmax,  *)
(* ymax, zmax); an error is the text of its message, word by word.         *)
(***************************************************************************)
\* Coordinates on, just inside and just outside the WGS84 bounds.
Coords == {-181, -180, -91, -90, 0, 90, 91, 180, 181}
Elevations == {0, 1}

Bbox4s == {<<xmin, ymin, xmax, ymax>> : xmin \in Coords, ymin \in Coords,
                                        xmax \in Coords, ymax \in Coords}
Bbox6s == {<<b[1], b[2], zmin, b[3], b[4], zmax>> :
              b \in Bbox4s, zmin \in Elevations, zmax \in Elevations}
\* Optional[BBox]
BboxInputs == {None} \cup {Some(b) : b \in Bbox4s \cup Bbox6s}

MsgElevation == <<"Maximum", "elevation", "must", "greater", "than", "minimum", "elevation">>
MsgLongitude ==
    <<"Maximum", "longitude", "must", "be", "greater", "than", "minimum", "longitude">>
MsgWgs84 == <<"Bounding", "box", "must", "be", "within", "(-180,", "-90,", "180,", "90)">>

BboxFail(msg) == [ok |-> FALSE, err |-> msg, value |-> None]

LonOrderViolated_Swapped(xmin, xmax) == xmin < xmax
\* if xmax < xmin
LonOrderViolated(xmin, xmax) == xmax < xmin

OutsideWgs84_Closed(xmin, ymin, xmax, ymax) ==
    xmin <= -180 \/ ymin <= -90 \/ xmax >= 180 \/ ymax >= 90
\* if xmin < -180 or ymin < -90 or xmax > 180 or ymax > 90
OutsideWgs84(xmin, ymin, xmax, ymax) ==
    xmin < -180 \/ ymin < -90 \/ xmax > 180 \/ ymax > 90

\* The outcome of validate_bbox on v: the message of the error it raises, or
\* the value it returns.
ValidateBbox(v) ==
    IF IsNone(v) \/ Unwrap(v) = <<>> THEN [ok |-> TRUE, err |-> <<>>, value |-> v]
    ELSE
    LET t == Unwrap(v)
        four == Len(t) = 4
        xmin == t[1]
        ymin == t[2]
        xmax == IF four THEN t[3] ELSE t[4]
        ymax == IF four THEN t[4] ELSE t[5]
    IN  IF ~four /\ t[6] < t[3] THEN BboxFail(MsgElevation)
        ELSE IF LonOrderViolated(xmin, xmax) THEN BboxFail(MsgLongitude)
        ELSE IF ymax < ymin THEN BboxFail(MsgLongitude)
        ELSE IF OutsideWgs84(xmin, ymin, xmax, ymax) THEN BboxFail(MsgWgs84)
        ELSE [ok |-> TRUE, err |-> <<>>, value |-> v]

InitBbox ==
    /\ cls_start_date = Unset
    /\ cls_end_date = Unset
    /\ settings = LoadSettings(DefaultEnvironment)
    /\ dt = DtOff /\ auth = AuthOff /\ wr = WrOff /\ rt = RtOff /\ req = ReqOff
    /\ bb \in {[pc |-> "start", v |-> v, res |-> BboxFail(<<>>)] : v \in BboxInputs}
    /\ bq = BqOff /\ lim = LimOff /\ ls = LsOff
    /\ AppOff

RunValidateBbox ==
    /\ bb.pc = "start"
    /\ bb' = [pc |-> "done", v |-> bb.v, res |-> ValidateBbox(bb.v)]
    /\ UNCHANGED <<cls_start_date, cls_end_date, dt, auth, wr, rt, req, settings,
                   bq, lim, ls, appVars>>

NextBbox == RunValidateBbox

SpecBbox == InitBbox /\ [][NextBbox]_vars

(***************************************************************************)
(* The converters of the GET-style request models (types/search.py) and    *)
(* the path of a bbox from the request to the backend callable.            *)
(***************************************************************************)
Str2List_EmptyList(val) ==
    IF IsNone(val) \/ Unwrap(val) = <<>> THEN Some(<<>>)
    ELSE Some(StrSplit(Unwrap(val), ","))
\* str2list: val.split(",") of a non-empty string, else None.
Str2List(val) ==
    IF IsNone(val) \/ Unwrap(val) = <<>> THEN None
    ELSE Some(StrSplit(Unwrap(val), ","))

\* The texts float() reads as a number, and the number each one reads as.
FloatTokens == {"0.0", "200"}
Float(tok) ==
    CASE tok = "0.0" -> 0
      [] tok = "200" -> 200

IsFloat(part) == Len(part) = 1 /\ part[1] \in FloatTokens

ConvFail(e) == [ok |-> FALSE, err |-> e, value |-> None]
ConvOk(v) == [ok |-> TRUE, err |-> "none", value |-> v]

\* str2bbox: the floats of the comma-separated parts, which must be 4.
Str2Bbox(x) ==
    IF IsNone(Str2List(x)) THEN ConvOk(None)
    ELSE
    LET parts == Unwrap(Str2List(x))
    IN  IF \E i \in 1..Len(parts) : ~IsFloat(parts[i]) THEN ConvFail("ValueError")
        ELSE IF Len(parts) # 4 THEN ConvFail("AssertionError")
        ELSE ConvOk(Some([i \in 1..Len(parts) |-> Float(parts[i][1])]))

BboxConverter(val) == Str2Bbox(val)

\* The parts a bbox query string is made of: numbers, text that is not a
\* number, and nothing (two commas in a row).
BboxParts == {<<"0.0">>, <<"200">>, <<"x">>, <<>>}
BboxQueries ==
    {None} \cup {Some(StrJoin(parts, ",")) : parts \in SeqsUpTo(BboxParts, MaxBboxParts)}

\* The request models with a bbox field.
GetBboxModels ==
    {"BaseSearchGetRequest", "BaseSearchAllGetRequest", "BaseCollectionSearchGetRequest",
     "ItemCollectionUri", "BaseCollectionSearchAllGetRequest"}
PostBboxModel == "BaseCollectionSearchPostRequest"

BqStart(model, query, body) ==
    [pc |-> "start", model |-> model, query |-> query, body |-> body,
     err |-> "none", bbox |-> None, forwarded |-> None]

InitBboxRequest ==
    /\ cls_start_date = Unset
    /\ cls_end_date = Unset
    /\ settings = LoadSettings(DefaultEnvironment)
    /\ dt = DtOff /\ auth = AuthOff /\ wr = WrOff /\ rt = RtOff /\ req = ReqOff
    /\ bb = BbOff /\ lim = LimOff /\ ls = LsOff
    /\ bq \in {BqStart(m, q, None) : m \in GetBboxModels, q \in BboxQueries}
              \cup {BqStart(PostBboxModel, None, b) : b \in BboxInputs}
    /\ AppOff

\* FastAPI builds the attrs model from the query: the converter runs.
BuildGetModel ==
    /\ bq.pc = "start"
    /\ bq.model \in GetBboxModels
    /\ LET res == BboxConverter(bq.query)
       IN  bq' = [bq EXCEPT !.pc = IF res.ok THEN "built" ELSE "error",
                            !.err = res.err,
                            !.bbox = res.value]
    /\ UNCHANGED <<cls_start_date, cls_end_date, dt, auth, wr, rt, req, settings,
                   bb, lim, ls, appVars>>

\* FastAPI builds the pydantic model from the body: the field validator runs.
BuildPostModel ==
    /\ bq.pc = "start"
    /\ bq.model = PostBboxModel
    /\ LET res == ValidateBbox(bq.body)
       IN  bq' = [bq EXCEPT !.pc = IF res.ok THEN "built" ELSE "error",
                            !.err = IF res.ok THEN "none" ELSE "ValidationError",
                            !.bbox = res.value]
    /\ UNCHANGED <<cls_start_date, cls_end_date, dt, auth, wr, rt, req, settings,
                   bb, lim, ls, appVars>>

\* The endpoint calls the backend callable with the model's fields.
CallBackend ==
    /\ bq.pc = "built"
    /\ bq' = [bq EXCEPT !.pc = "called", !.forwarded = bq.bbox]
    /\ UNCHANGED <<cls_start_date, cls_end_date, dt, auth, wr, rt, req, settings,
                   bb, lim, ls, appVars>>

NextBboxRequest == BuildGetModel \/ BuildPostModel \/ CallBackend

SpecBboxRequest == InitBboxRequest /\ [][NextBboxRequest]_vars

(***************************************************************************)
(* Limit: PositiveInt, then crop (types/search.py).                        *)
(***************************************************************************)
\* limit = 10_000
CropLimit == 10000

Crop_Inverted(v) == IF v < CropLimit THEN CropLimit ELSE v
\* crop: if v > limit: v = limit
Crop(v) == IF v > CropLimit THEN CropLimit ELSE v

\* Optional[Limit]: None passes; an integer must be positive and is cropped.
ValidateLimit(v) ==
    IF IsNone(v) THEN ConvOk(None)
    ELSE IF Unwrap(v) > 0 THEN ConvOk(Some(Crop(Unwrap(v))))
    ELSE ConvFail("greater_than")

\* Limits around zero, around the cap and far above it.
LimitInputs ==
    {None} \cup {Some(v) : v \in (-1..2) \cup {10 * CropLimit}
                               \cup ((CropLimit - MaxLimitDelta)..(CropLimit + MaxLimitDelta))}

InitLimit ==
    /\ cls_start_date = Unset
    /\ cls_end_date = Unset
    /\ settings = LoadSettings(DefaultEnvironment)
    /\ dt = DtOff /\ auth = AuthOff /\ wr = WrOff /\ rt = RtOff /\ req = ReqOff
    /\ bb = BbOff /\ bq = BqOff /\ ls = LsOff
    /\ lim \in {[pc |-> "start", v |-> v, res |-> ConvFail("none")] : v \in LimitInputs}
    /\ AppOff

RunValidateLimit ==
    /\ lim.pc = "start"
    /\ lim' = [pc |-> "done", v |-> lim.v, res |-> ValidateLimit(lim.v)]
    /\ UNCHANGED <<cls_start_date, cls_end_date, dt, auth, wr, rt, req, settings,
                   bb, bq, ls, appVars>>

NextLimit == RunValidateLimit

SpecLimit == InitLimit /\ [][NextLimit]_vars

(***************************************************************************)
(* The list parameters of the GET-style models and their converters.       *)
(***************************************************************************)
CollectionConverter(val) == Str2List(val)
IdsConverter(val) == Str2List(val)
AggConverter(val) == Str2List(val)

ListParams == {"collections", "ids", "q", "aggregations"}

\* The converter attrs runs on each list parameter.
ListConverter(param, val) ==
    CASE param = "collections" -> CollectionConverter(val)
      [] param = "ids" -> IdsConverter(val)
      [] param = "q" -> Str2List(val)
      [] param = "aggregations" -> AggConverter(val)

ListAlphabet == {",", "a", "b"}
ListInputs == {None} \cup {Some(s) : s \in SeqsUpTo(ListAlphabet, MaxListLen)}

InitList ==
    /\ cls_start_date = Unset
    /\ cls_end_date = Unset
    /\ settings = LoadSettings(DefaultEnvironment)
    /\ dt = DtOff /\ auth = AuthOff /\ wr = WrOff /\ rt = RtOff /\ req = ReqOff
    /\ bb = BbOff /\ bq = BqOff /\ lim = LimOff
    /\ ls \in {[pc |-> "start", param |-> p, val |-> v, res |-> None] :
                  p \in ListParams, v \in ListInputs}
    /\ AppOff

RunListConverter ==
    /\ ls.pc = "start"
    /\ ls' = [ls EXCEPT !.pc = "done", !.res = ListConverter(ls.param, ls.val)]
    /\ UNCHANGED <<cls_start_date, cls_end_date, dt, auth, wr, rt, req, settings,
                   bb, bq, lim, appVars>>

NextList == RunListConverter

SpecList == InitList /\ [][NextList]_vars

(***************************************************************************)
(* create_request_model (api/models.py).  A request model is a class: its  *)
(* style ("attrs" for the APIRequest classes, "pydantic" for the BaseModel *)
(* ones), the request models it derives from, and its fields, inherited    *)
(* ones first.  A field without a default has the default NOTHING.  The    *)
(* conv of a field is its attrs converter; the field validators of a       *)
(* pydantic class belong to the class, not to its fields.                  *)
(***************************************************************************)
NOTHING == "NOTHING"

Field(name, type, conv, default) ==
    [name |-> name, type |-> type, conv |-> conv, default |-> default]

Model(name, style, ancestors, fields) ==
    [name |-> name, style |-> style, ancestors |-> ancestors, fields |-> fields]

BaseSearchGetFields ==
    << Field("cat_path", "str", "none", NOTHING),
       Field("collections", "Optional[List[str]]", "_collection_converter", "None"),
       Field("bbox", "Optional[BBox]", "_bbox_converter", "None"),
       Field("limit", "Optional[Limit]", "none", "10") >>

BaseSearchGetRequest == Model("BaseSearchGetRequest", "attrs", {}, BaseSearchGetFields)

AggregationExtensionGetRequest ==
    Model("AggregationExtensionGetRequest", "attrs", {"BaseSearchGetRequest"},
          BaseSearchGetFields
          \o <<Field("aggregations", "Optional[List[str]]", "_agg_converter", "None")>>)

BaseCollectionSearchAllGetRequest ==
    Model("BaseCollectionSearchAllGetRequest", "attrs", {},
          << Field("bbox", "Optional[BBox]", "_bbox_converter", "None"),
             Field("limit", "Optional[Limit]", "none", "10"),
             Field("q", "Optional[List[str]]", "str2list", "None") >>)

BaseSearchPostFields ==
    << Field("collections", "Optional[List[str]]", "none", "None"),
       Field("bbox", "Optional[BBox]", "none", "None"),
       Field("limit", "Optional[Limit]", "none", "10") >>

BaseSearchPostRequest == Model("BaseSearchPostRequest", "pydantic", {}, BaseSearchPostFields)

AggregationExtensionPostRequest ==
    Model("AggregationExtensionPostRequest", "pydantic", {"BaseSearchPostRequest"},
          BaseSearchPostFields
          \o <<Field("aggregations", "Optional[List[str]]", "none", "None")>>)

BaseCollectionSearchPostRequest ==
    Model("BaseCollectionSearchPostRequest", "pydantic", {},
          << Field("bbox", "Optional[BBox]", "none", "None"),
             Field("datetime", "Optional[str]", "none", "None"),
             Field("limit", "Optional[Limit]", "none", "10"),
             Field("q", "Optional[List[str]]", "none", "None") >>)

\* Extensions: the request model each has for GET and for POST, if any.
Extension(name, get, post) == [name |-> name, GET |-> get, POST |-> post]

AggregationExtension ==
    Extension("AggregationExtension", Some(AggregationExtensionGetRequest),
              Some(AggregationExtensionPostRequest))
CollectionSearchExtension ==
    Extension("CollectionSearchExtension", Some(BaseCollectionSearchAllGetRequest),
              Some(BaseCollectionSearchPostRequest))
TransactionExtension == Extension("TransactionExtension", None, None)

Extensions == {AggregationExtension, CollectionSearchExtension, TransactionExtension}

\* extension.get_request_model(request_type)
GetRequestModel(extension, request_type) ==
    IF request_type = "GET" THEN extension.GET ELSE extension.POST

\* Mixins an application hands in: a paging token in either style, and a
\* body-style model that declares limit as a string.
TokenGetMixin ==
    Model("TokenGetMixin", "attrs", {}, <<Field("token", "Optional[str]", "none", "None")>>)
TokenPostMixin ==
    Model("TokenPostMixin", "pydantic", {}, <<Field("token", "Optional[str]", "none", "None")>>)
StrLimitPostMixin ==
    Model("StrLimitPostMixin", "pydantic", {}, <<Field("limit", "str", "none", "all")>>)

Mixins == {TokenGetMixin, TokenPostMixin, StrLimitPostMixin}
BaseModels == {BaseSearchGetRequest, BaseSearchPostRequest, BaseCollectionSearchPostRequest}

\* The sequences of up to n different elements of S.
DistinctSeqs(S, n) ==
    {q \in SeqsUpTo(S, n) : \A i, j \in 1..Len(q) : i # j => q[i] # q[j]}

\* extension_models: the models of the extensions that have one, in order.
RECURSIVE ExtensionModels(_, _)
ExtensionModels(extensions, request_type) ==
    IF extensions = <<>> THEN <<>>
    ELSE LET m == GetRequestModel(Head(extensions), request_type)
             rest == ExtensionModels(Tail(extensions), request_type)
         IN  IF IsNone(m) THEN rest ELSE <<Unwrap(m)>> \o rest

FieldNames(fields) == {fields[i].name : i \in 1..Len(fields)}

\* The fields of a sequence of models, one after another.
RECURSIVE AllFields(_)
AllFields(models) ==
    IF models = <<>> THEN <<>> ELSE Head(models).fields \o AllFields(Tail(models))

\* One definition per name, each at the place the name first has: the first
\* definition of the name (attrs), or the last (a dict assigned in order).
FirstWins(fields) ==
    SelectSeq([i \in 1..Len(fields) |->
                 IF \E j \in 1..(i - 1) : fields[j].name = fields[i].name
                 THEN [name |-> ""] ELSE fields[i]],
              LAMBDA f : f.name # "")
LastWins(fields) ==
    LET last(n) == CHOOSE i \in 1..Len(fields) :
                      /\ fields[i].name = n
                      /\ \A j \in (i + 1)..Len(fields) : fields[j].name # n
        firsts == FirstWins(fields)
    IN  [i \in 1..Len(firsts) |-> fields[last(firsts[i].name)]]

\* type(name, bases, ...) has no method resolution order when a base is
\* given twice or before a class derived from it.
NoMro(models) ==
    \E i, j \in 1..Len(models) :
        /\ i < j
        /\ (models[i].name = models[j].name \/ models[i].name \in models[j].ancestors)

\* attrs: no mandatory attribute after one with a default.
MandatoryAfterDefault(fields) ==
    \E i, j \in 1..Len(fields) :
        i < j /\ fields[i].default # NOTHING /\ fields[j].default = NOTHING

ModelFail(e) == [ok |-> FALSE, err |-> e, style |-> "", fields |-> <<>>]
ModelOk(style, fields) == [ok |-> TRUE, err |-> "none", style |-> style, fields |-> fields]

AllOfStyle_Any(models, style) == \E i \in 1..Len(models) : models[i].style = style
\* all([issubclass(m, ...) for m in models])
AllOfStyle(models, style) == \A i \in 1..Len(models) : models[i].style = style

\* attr.make_class(model_name, attrs={}, bases=tuple(models))
MakeClass(models) ==
    IF NoMro(models) THEN ModelFail("TypeError: no consistent MRO")
    ELSE IF MandatoryAfterDefault(FirstWins(AllFields(models)))
    THEN ModelFail("ValueError: mandatory after default")
    ELSE ModelOk("attrs", FirstWins(AllFields(models)))

\* fields[k] = (field_info.annotation, field_info) over every model, then
\* create_model(model_name, **fields, __base__=base_model)
CreateModel(models) == ModelOk("pydantic", LastWins(AllFields(models)))

CreateRequestModel(base_model, extensions, mixins, request_type) ==
    LET models == <<base_model>> \o ExtensionModels(extensions, request_type) \o mixins
    IN  IF AllOfStyle(models, "attrs") THEN MakeClass(models)
        ELSE IF AllOfStyle(models, "pydantic") THEN CreateModel(models)
        ELSE ModelFail("TypeError: Mixed Request Model types")

InitCompose ==
    /\ cls_start_date = Unset
    /\ cls_end_date = Unset
    /\ settings = LoadSettings(DefaultEnvironment)
    /\ dt = DtOff /\ auth = AuthOff /\ wr = WrOff /\ rt = RtOff /\ req = ReqOff
    /\ ParamsOff
    /\ uri = UriOff /\ rd = RdOff /\ conf = ConfOff /\ ep = EpOff
    /\ cm \in {[pc |-> "start", base_model |-> b, extensions |-> e, mixins |-> m,
                request_type |-> t, res |-> ModelFail("none")] :
                  b \in BaseModels, e \in DistinctSeqs(Extensions, MaxExtensions),
                  m \in DistinctSeqs(Mixins, MaxMixins), t \in {"GET", "POST"}}

RunCreateRequestModel ==
    /\ cm.pc = "start"
    /\ cm' = [cm EXCEPT !.pc = "done",
                        !.res = CreateRequestModel(cm.base_model, cm.extensions,
                                                   cm.mixins, cm.request_type)]
    /\ UNCHANGED <<cls_start_date, cls_end_date, dt, auth, wr, rt, req, settings,
                   paramVars, uri, rd, conf, ep>>

NextCompose == RunCreateRequestModel

SpecCompose == InitCompose /\ [][NextCompose]_vars

(***************************************************************************)
(* The cat_path path parameter of the catalog request models               *)
(* (api/models.py, extensions/core/transaction.py).                        *)
(***************************************************************************)
\* CatalogUri and the models derived from it.
ExistingCatalogModels ==
    {"CatalogUri", "CollectionUri", "ItemUri", "ItemCollectionUri", "PutCollection",
     "DeleteCollection"}
\* CreateCatalogUri and the models derived from it.
CreationModels == {"CreateCatalogUri", "PostCollection", "PostCatalog"}

\* The class whose cat_path field a model has.
CatPathOwner(model) ==
    IF model \in CreationModels THEN "CreateCatalogUri" ELSE "CatalogUri"

\* Path(regex=...) on cat_path: does the model accept the value?
CatPathAccepted(model, cat_path) == PathParamsValid(CatPathOwner(model), Some(cat_path))

CatPathAlphabet == {"/", "catalogs", "root", "a"}
CatPaths == SeqsUpTo(CatPathAlphabet, MaxCatPathLen)

InitCatPath ==
    /\ cls_start_date = Unset
    /\ cls_end_date = Unset
    /\ settings = LoadSettings(DefaultEnvironment)
    /\ dt = DtOff /\ auth = AuthOff /\ wr = WrOff /\ rt = RtOff /\ req = ReqOff
    /\ ParamsOff
    /\ cm = CmOff /\ rd = RdOff /\ conf = ConfOff /\ ep = EpOff
    /\ uri \in {[pc |-> "start", model |-> m, cat_path |-> p, accepted |-> FALSE] :
                   m \in ExistingCatalogModels \cup CreationModels, p \in CatPaths}

RunValidateCatPath ==
    /\ uri.pc = "start"
    /\ uri' = [uri EXCEPT !.pc = "done", !.accepted = CatPathAccepted(uri.model, uri.cat_path)]
    /\ UNCHANGED <<cls_start_date, cls_end_date, dt, auth, wr, rt, req, settings,
                   paramVars, cm, rd, conf, ep>>

NextCatPath == RunValidateCatPath

SpecCatPath == InitCatPath /\ [][NextCatPath]_vars

(***************************************************************************)
(* The endpoint of create_async_endpoint on the event loop: one task per   *)
(* request, a backend callable that is a coroutine function or a           *)
(* synchronous one, and the worker threads run_in_threadpool draws on.     *)
(***************************************************************************)
Tasks == 1..NumTasks

FuncKinds == {"coroutine", "sync"}

Wrapped_Never(func_kind) == FALSE
\* if not inspect.iscoroutinefunction(func): func = sync_to_async(func)
Wrapped(func_kind) == func_kind # "coroutine"

\* calls counts the invocations of the backend callable for the request;
\* error is what the task of the request raised to the HTTP layer;
\* arrived_during is a request whose call was on a worker when this one
\* arrived (0 when there was none).
IdleTask ==
    [pc |-> "idle", arrived_during |-> 0, calls |-> 0, result |-> None, error |-> None,
     response |-> None]

OnWorker == {r \in Tasks : ep.task[r].pc = "on_worker"}

\* A synchronous callable called on the event loop's own thread holds it.
LoopBlocked == \E r \in Tasks : ep.task[r].pc = "blocking"

InitAsync ==
    /\ cls_start_date = Unset
    /\ cls_end_date = Unset
    /\ settings = LoadSettings(DefaultEnvironment)
    /\ dt = DtOff /\ auth = AuthOff /\ wr = WrOff /\ rt = RtOff /\ req = ReqOff
    /\ ParamsOff
    /\ cm = CmOff /\ uri = UriOff /\ rd = RdOff /\ conf = ConfOff
    /\ ep \in {[pc |-> "serving", func_kind |-> k, task |-> [r \in Tasks |-> IdleTask]] :
                  k \in FuncKinds}

\* A request arrives and its task starts _endpoint.
Arrive(r) ==
    /\ ep.pc = "serving"
    /\ ~LoopBlocked
    /\ ep.task[r].pc = "idle"
    /\ ep' = [ep EXCEPT !.task[r] =
                 [@ EXCEPT !.pc = "started",
                           !.arrived_during =
                               IF OnWorker = {} THEN 0
                               ELSE CHOOSE w \in OnWorker : \A x \in OnWorker : w <= x]]
    /\ UNCHANGED <<cls_start_date, cls_end_date, dt, auth, wr, rt, req, settings,
                   paramVars, cm, uri, rd, conf>>

\* await func(...): a coroutine is awaited on the loop; a wrapped
\* synchronous callable goes to a worker thread, or waits for one.
CallFunc(r) ==
    /\ ep.pc = "serving"
    /\ ~LoopBlocked
    /\ ep.task[r].pc = "started"
    /\ ep' = [ep EXCEPT !.task[r] =
                 IF ep.func_kind = "coroutine"
                 THEN [@ EXCEPT !.pc = "awaiting", !.calls = @ + 1]
                 ELSE IF ~Wrapped(ep.func_kind)
                 THEN [@ EXCEPT !.pc = "blocking", !.calls = @ + 1]
                 ELSE IF Cardinality(OnWorker) < PoolSize
                 THEN [@ EXCEPT !.pc = "on_worker", !.calls = @ + 1]
                 ELSE [@ EXCEPT !.pc = "queued"]]
    /\ UNCHANGED <<cls_start_date, cls_end_date, dt, auth, wr, rt, req, settings,
                   paramVars, cm, uri, rd, conf>>

\* A worker thread is free for a waiting call.
AcquireWorker(r) ==
    /\ ep.pc = "serving"
    /\ ep.task[r].pc = "queued"
    /\ Cardinality(OnWorker) < PoolSize
    /\ ep' = [ep EXCEPT !.task[r] = [@ EXCEPT !.pc = "on_worker", !.calls = @ + 1]]
    /\ UNCHANGED <<cls_start_date, cls_end_date, dt, auth, wr, rt, req, settings,
                   paramVars, cm, uri, rd, conf>>

\* What the task does when the callable raised error: nothing catches it.
OnError_Retry(task, error) == [task EXCEPT !.pc = "started"]
OnError(task, error) == [task EXCEPT !.pc = "raised", !.error = Some(error)]

\* The backend callable returns or raises.
FuncReturn(r) ==
    /\ ep.pc = "serving"
    /\ ep.task[r].pc \in {"awaiting", "on_worker", "blocking"}
    /\ \E out \in BackendOutcomes :
          ep' = [ep EXCEPT !.task[r] =
                    IF out = "raise" THEN OnError(@, "BackendError")
                    ELSE IF ep.task[r].pc = "blocking" THEN OnError(@, "TypeError")
                    ELSE [@ EXCEPT !.pc = "finished",
                                   !.result = IF out = "none" THEN None ELSE Some(out)]]
    /\ UNCHANGED <<cls_start_date, cls_end_date, dt, auth, wr, rt, req, settings,
                   paramVars, cm, uri, rd, conf>>

\* return _wrap_response(...)
TaskRespond(r) ==
    /\ ep.pc = "serving"
    /\ ~LoopBlocked
    /\ ep.task[r].pc = "finished"
    /\ ep' = [ep EXCEPT !.task[r] =
                 [@ EXCEPT !.pc = "responded",
                           !.response = Some(WrapResponse(ep.task[r].result, "GET",
                                                            <<"/">>, settings))]]
    /\ UNCHANGED <<cls_start_date, cls_end_date, dt, auth, wr, rt, req, settings,
                   paramVars, cm, uri, rd, conf>>

NextAsync ==
    \E r \in Tasks :
        \/ Arrive(r)
        \/ CallFunc(r)
        \/ AcquireWorker(r)
        \/ FuncReturn(r)
        \/ TaskRespond(r)

SpecAsync == InitAsync /\ [][NextAsync]_vars

(***************************************************************************)
(* The datetime validator on one string after another in one process: the  *)
(* class attributes it stores outlive each validation.                     *)
(***************************************************************************)
\* Datetime strings of every outcome: instants, closed and open intervals,
\* the empty string, a reversed interval, unparsable text, three segments.
SeqDatetimes ==
    { <<>>, <<"T1">>, <<"T2">>, <<"T1", "/", "T2">>, <<".", ".", "/", "T2">>, <<"T1", "/">>,
      <<"T2", "/", "T1">>, <<"x">>, <<"T1", "/", "x">>, <<"T1", "/", "T2", "/", "T1">>,
      <<"x", "/", "x", "/", "x">> }

InitDatetimeSeq ==
    /\ cls_start_date = Unset
    /\ cls_end_date = Unset
    /\ settings = LoadSettings(DefaultEnvironment)
    /\ dt = [pc |-> "idle", value |-> <<>>, res |-> DtFail("none", <<>>)]
    /\ auth = AuthOff /\ wr = WrOff /\ rt = RtOff /\ req = ReqOff
    /\ ParamsOff
    /\ AppOff

\* The next request body with a datetime reaches the model.
SubmitDatetime ==
    /\ dt.pc \in {"idle", "done"}
    /\ \E v \in SeqDatetimes : dt' = [dt EXCEPT !.pc = "start", !.value = v]
    /\ UNCHANGED <<cls_start_date, cls_end_date, auth, wr, rt, req, settings,
                   paramVars, appVars>>

NextDatetimeSeq == SubmitDatetime \/ RunValidateDatetime

SpecDatetimeSeq == InitDatetimeSeq /\ [][NextDatetimeSeq]_vars

(***************************************************************************)
(* add_route_dependencies on routes of the transaction extension.  A path  *)
(* is a string of tokens, "*" the one token "*".                           *)
(***************************************************************************)
StarPath == <<"*">>

\* route.path: the template as it was written, token by token.
ElemText(elem) ==
    CASE elem.kind = "lit" -> elem.text
      [] elem.kind = "path" -> "{cat_path:path}"
      [] elem.name = "collection_id" -> "{collection_id}"
      [] OTHER -> "{item_id}"

RECURSIVE TemplatePath(_)
TemplatePath(template) ==
    IF template = <<>> THEN <<>>
    ELSE <<"/", ElemText(Head(template))>> \o TemplatePath(Tail(template))

\* get_parameterless_sub_dependant(depends=depends, path=route.path_format)
SubDependant(depends, route) == [call |-> depends, path |-> route.template]

\* A route as add_route_dependencies sees it: with or without a dependant,
\* the dependant's list of sub-dependants, and the route's own dependencies.
WithDependencies(route, has_dependant, deps) ==
    [name |-> route.name, method |-> route.method, template |-> route.template,
     has_dependant |-> has_dependant,
     dependant_dependencies |-> [i \in 1..Len(deps) |-> SubDependant(deps[i], route)],
     dependencies |-> deps]

TransactionRoute(name) ==
    TransactionRoutes[CHOOSE i \in 1..Len(TransactionRoutes) : TransactionRoutes[i].name = name]

\* A documentation route: a plain route without a dependant (HEAD, which the
\* router adds to GET, left out).
ApiRoute == Route("api", "GET", <<Lit("api")>>, "", "")

AllRoutes ==
    << WithDependencies(TransactionRoute("Create Collection"), TRUE, <<>>),
       WithDependencies(TransactionRoute("Update Collection"), TRUE, <<"d0">>),
       WithDependencies(TransactionRoute("Delete Collection"), TRUE, <<>>),
       WithDependencies(ApiRoute, FALSE, <<>>) >>
RouteTables ==
    { SubSeq(AllRoutes, a, b) : a \in 1..Len(AllRoutes), b \in 0..Len(AllRoutes) }

\* Scope: path and method, and possibly a type that replaces "http".
Scope(path, method, type) == [path |-> path, method |-> method, type |-> type]
ScopePaths ==
    { StarPath,
      TemplatePath(TransactionRoute("Create Collection").template),
      TemplatePath(TransactionRoute("Update Collection").template),
      <<"/", "catalogs", "/", "a", "/", "collections", "/", "b">>,
      <<"/", "other">> }
ScopeMethods == {"*", "PUT"}
Scopes ==
    { Scope(p, m, None) : p \in ScopePaths, m \in ScopeMethods }
    \cup { Scope(StarPath, "*", Some("websocket")) }
Dependencies == {"auth", "log"}

\* route.matches({"type": "http", **_scope}): a route answers http scopes only.
ScopeMatch(route, _scope) ==
    IF _scope.type # "http" THEN "none"
    ELSE RouteMatch(route, _scope.method, _scope.path)

\* dependencies[::-1]
Reversed_Forward(s) == s
Reversed(s) == [i \in 1..Len(s) |-> s[Len(s) + 1 - i]]

\* for depends in ...: route.dependant.dependencies.insert(0, sub-dependant)
RECURSIVE InsertEach(_, _, _)
InsertEach(deps, route, list) ==
    IF deps = <<>> THEN list
    ELSE InsertEach(Tail(deps), route, <<SubDependant(Head(deps), route)>> \o list)

\* The body of the inner loop for one scope and one route.
ApplyScope(scope, route, dependencies) ==
    LET _scope ==
            [type |-> IF IsNone(scope.type) THEN "http" ELSE Unwrap(scope.type),
             path |-> IF scope.path = StarPath THEN TemplatePath(route.template) ELSE scope.path,
             method |-> IF scope.method = "*" THEN route.method ELSE scope.method]
    IN  IF ScopeMatch(route, _scope) # "full" THEN route
        ELSE IF ~route.has_dependant THEN route
        ELSE [route EXCEPT
                 !.dependant_dependencies = InsertEach(Reversed(dependencies), route, @),
                 !.dependencies = @ \o dependencies]

RECURSIVE ForScopes(_, _, _)
ForScopes(routes, scopes, dependencies) ==
    IF scopes = <<>> THEN routes
    ELSE ForScopes([i \in 1..Len(routes) |-> ApplyScope(Head(scopes), routes[i], dependencies)],
                   Tail(scopes), dependencies)

InitRouteDeps ==
    /\ cls_start_date = Unset
    /\ cls_end_date = Unset
    /\ settings = LoadSettings(DefaultEnvironment)
    /\ dt = DtOff /\ auth = AuthOff /\ wr = WrOff /\ rt = RtOff /\ req = ReqOff
    /\ ParamsOff
    /\ cm = CmOff /\ uri = UriOff /\ conf = ConfOff /\ ep = EpOff
    /\ \E routes \in RouteTables :
           rd = [pc |-> "start", routes |-> routes, before |-> routes,
                 scopes |-> <<>>, dependencies |-> <<>>]

AddRouteDependencies ==
    /\ rd.pc = "start"
    /\ \E scopes \in SeqsUpTo(Scopes, MaxScopes), dependencies \in SeqsUpTo(Dependencies, MaxDeps) :
           rd' = [rd EXCEPT !.pc = "done",
                            !.routes = ForScopes(rd.routes, scopes, dependencies),
                            !.scopes = scopes,
                            !.dependencies = dependencies]
    /\ UNCHANGED <<cls_start_date, cls_end_date, dt, auth, wr, rt, req, settings,
                   paramVars, cm, uri, conf, ep>>

NextRouteDeps == AddRouteDependencies

SpecRouteDeps == InitRouteDeps /\ [][NextRouteDeps]_vars

(***************************************************************************)
(* Conformance listing of a core client.  BASE_CONFORMANCE_CLASSES is one  *)
(* list of the process; the client's base_conformance_classes attribute is *)
(* that same list (the factory returns it, not a copy).                    *)
(***************************************************************************)
BASE_CONFORMANCE_CLASSES == <<"core", "collections">>

\* getattr(extension, "conformance_classes", [])
ConformanceClassesOf(extension) ==
    IF extension.name = "AggregationExtension" THEN <<"aggregation">> ELSE <<>>

ConformanceExtensions == {AggregationExtension, TransactionExtension}

\* for extension in self.extensions: list.extend(extension classes)
RECURSIVE ExtendWith(_, _)
ExtendWith(list, extensions) ==
    IF extensions = <<>> THEN list
    ELSE ExtendWith(list \o ConformanceClassesOf(Head(extensions)), Tail(extensions))

Elements(list) == {list[i] : i \in 1..Len(list)}

\* list(set(xs)): the distinct elements, in any order.
ListOfSet(xs) ==
    LET S == Elements(xs)
    IN  {l \in [1..Cardinality(S) -> S] : Elements(l) = S}

InitConformance ==
    /\ cls_start_date = Unset
    /\ cls_end_date = Unset
    /\ settings = LoadSettings(DefaultEnvironment)
    /\ dt = DtOff /\ auth = AuthOff /\ wr = WrOff /\ rt = RtOff /\ req = ReqOff
    /\ ParamsOff
    /\ cm = CmOff /\ uri = UriOff /\ rd = RdOff /\ ep = EpOff
    /\ \E extensions \in SeqsUpTo(ConformanceExtensions, MaxExtensions) :
           conf = [pc |-> "on", base |-> BASE_CONFORMANCE_CLASSES,
                   extensions |-> extensions, calls |-> 0,
                   op |-> "", ret |-> <<>>,
                   first |-> [conformance_classes |-> None,
                              list_conformance_classes |-> None]]

Returned(op, ret) ==
    [conf EXCEPT !.calls = @ + 1, !.op = op, !.ret = ret,
                 !.first[op] = IF IsNone(@) THEN Some(ret) ELSE @]

ConformanceClasses ==
    /\ conf.pc = "on"
    /\ conf.calls < MaxCalls
    /\ LET base_conformance_classes == ExtendWith(conf.base, conf.extensions)
       IN  \E ret \in ListOfSet(base_conformance_classes) :
               conf' = Returned("conformance_classes", ret)
    /\ UNCHANGED <<cls_start_date, cls_end_date, dt, auth, wr, rt, req, settings,
                   paramVars, cm, uri, rd, ep>>

ListConformanceClasses ==
    /\ conf.pc = "on"
    /\ conf.calls < MaxCalls
    /\ LET base_conformance == ExtendWith(conf.base, conf.extensions)
       IN  conf' = [Returned("list_conformance_classes", base_conformance)
                        EXCEPT !.base = base_conformance]
    /\ UNCHANGED <<cls_start_date, cls_end_date, dt, auth, wr, rt, req, settings,
                   paramVars, cm, uri, rd, ep>>

NextConformance == ConformanceClasses \/ ListConformanceClasses

SpecConformance == InitConformance /\ [][NextConformance]_vars

(***************************************************************************)
(* Claims.                                                                 *)
(***************************************************************************)
AuthToken == Unwrap(auth.credentials)

\* C1: with a token whose claims hold a workspaces list and a non-empty
\* user_services, extract_headers returns X-Workspaces = the workspaces
\* followed by user_services and X-Authenticated = true; with user_services
\* absent, X-Workspaces is exactly the workspaces list.
C1_WorkspacesMerged ==
    (/\ auth.pc = "done"
     /\ ~IsNone(auth.credentials)
     /\ AuthToken.wellformed
     /\ ~IsNone(AuthToken.claims.workspaces))
    => LET ws == Unwrap(AuthToken.claims.workspaces)
           us == AuthToken.claims.user_services
       IN  /\ ~auth.out.raised
           /\ Truthy(us) => /\ auth.out.headers.X_Workspaces = Some(Append(ws, Unwrap(us)))
                            /\ auth.out.headers.X_Authenticated
           /\ IsNone(us) => auth.out.headers.X_Workspaces = Some(ws)

\* C2: a PUT to /catalogs/{cat_path}/collections/{collection_id}/access-policy
\* with a grammar-valid cat_path is handled by update_collection_access_policy.
C2_CollectionPolicyHandled ==
    (/\ rt.pc = "done"
     /\ rt.method = "PUT"
     /\ rt.path[1] = "/"
     /\ LET segs == Tail(StrSplit(rt.path, "/"))
            n == Len(segs)
        IN  /\ n >= 5
            /\ segs[1] = <<"catalogs">>
            /\ CatPathGrammar(StrJoin(SubSeq(segs, 2, n - 3), "/"))
            /\ segs[n - 2] = <<"collections">>
            /\ segs[n - 1] # <<>>
            /\ segs[n] = <<"access-policy">>)
    => /\ rt.out.status = 0
       /\ rt.out.handler = "update_collection_access_policy"

\* C3: whatever other requests are validated meanwhile, the start_date and
\* end_date a validated collection-search POST request reports are the
\* bounds of its own datetime string.
C3_OwnBoundsRead ==
    \A r \in Reqs :
        (/\ req[r].pc \in {"returned", "raised", "responded"}
         /\ ~IsNone(req[r].datetime))
        => /\ req[r].seen_start = ValidateDatetime(Unwrap(req[r].datetime)).start
           /\ req[r].seen_end = ValidateDatetime(Unwrap(req[r].datetime)).end

\* C4: no step of handling a request changes a class-level field or a
\* module-level value of this layer.
C4_ProcessStateUnchanged ==
    [][<<cls_start_date, cls_end_date, settings>>' = <<cls_start_date, cls_end_date, settings>>]_vars

\* C5 as stated: a GET of "/" always gets the configured directive.
C5_RootAlwaysCached ==
    (wr.pc = "done" /\ wr.verb = "GET" /\ wr.url_path = <<"/">>)
    => wr.out.cache_control = settings.CACHE_CONTROL_HEADERS

\* C5: a GET of "/" whose backend result is not None gets the configured
\* cache-control directive; with a None result the response is the 204 one
\* with max-age=0.
C5_RootCachedWithResult ==
    (wr.pc = "done" /\ wr.verb = "GET" /\ wr.url_path = <<"/">>)
    => IF wr.resp # None
       THEN wr.out.cache_control = settings.CACHE_CONTROL_HEADERS
       ELSE wr.out.cache_control = "max-age=0" /\ wr.out.status = 204

C5_Witness ==
    /\ wr.pc = "done" /\ wr.verb = "GET" /\ wr.url_path = <<"/">>
    /\ wr.resp = Some("doc")
    /\ wr.out.cache_control = "max-age=300, stale-while-revalidate=300"

\* C6: for a GET under /catalogs/ with a result, the directive is the
\* configured one exactly when the segment right after /catalogs/ is in the
\* allow-list, and max-age=0 otherwise.
C6_CatalogAllowList ==
    (/\ wr.pc = "done" /\ wr.verb = "GET" /\ wr.resp # None
     /\ Len(wr.url_path) >= 3
     /\ wr.url_path[1] = "/" /\ wr.url_path[2] = "catalogs" /\ wr.url_path[3] = "/")
    => \A k \in 3..Len(wr.url_path) :
          (/\ \A i \in 4..k : wr.url_path[i] # "/"
           /\ (k = Len(wr.url_path) \/ wr.url_path[k + 1] = "/"))
          => LET name == SubSeq(wr.url_path, 4, k)
                 allowed == \E i \in 1..Len(settings.CACHE_CONTROL_CATALOGS_LIST) :
                                settings.CACHE_CONTROL_CATALOGS_LIST[i] = name
             IN  /\ allowed => wr.out.cache_control = settings.CACHE_CONTROL_HEADERS
                 /\ ~allowed => wr.out.cache_control = "max-age=0"

C6_Witness ==
    /\ wr.pc = "done" /\ wr.verb = "GET" /\ wr.resp = Some("doc")
    /\ wr.url_path = <<"/", "catalogs", "/", "sd", "/", "c1">>
    /\ wr.out.cache_control = "max-age=300, stale-while-revalidate=300"

\* C7: every response to a POST, PUT or DELETE carries max-age=0, whatever
\* the path and whether or not the result is None.
C7_MutationsNotCached ==
    (wr.pc = "done" /\ wr.verb \in {"POST", "PUT", "DELETE"})
    => wr.out.cache_control = "max-age=0"

C7_Witness ==
    /\ wr.pc = "done" /\ wr.verb = "PUT" /\ wr.resp = Some("doc")
    /\ wr.url_path = <<"/", "catalogs", "/", "sd">>
    /\ settings.CACHE_CONTROL_CATALOGS_LIST[1] = <<"sd">>
    /\ wr.out.cache_control = "max-age=0"

\* C8: a backend result of None is answered with status 204 and no body,
\* any other result with a JSON body holding exactly that result.
C8_NoneIs204ElseBody ==
    \A r \in Reqs :
        req[r].pc = "responded"
        => LET response == Unwrap(req[r].response)
           IN  IF req[r].result = None
               THEN response.status = 204 /\ response.body = None
               ELSE response.status # 204 /\ response.body = Some(Unwrap(req[r].result))

C8_Witness ==
    \E r \in Reqs :
        /\ req[r].pc = "responded"
        /\ req[r].result = Some("{}")
        /\ Unwrap(req[r].response).body = Some("{}")

\* C9: without a bearer token extract_headers returns X-Authenticated = false
\* and X-Workspaces = []; the X-Authenticated it returns is true exactly
\* when a token is present.
C9_Unauthenticated ==
    (auth.pc = "done" /\ ~auth.out.raised)
    => /\ IsNone(auth.credentials)
             => /\ auth.out.headers.X_Authenticated = FALSE
                /\ auth.out.headers.X_Workspaces = Some(<<>>)
       /\ auth.out.headers.X_Authenticated <=> ~IsNone(auth.credentials)

C9_Witness ==
    /\ auth.pc = "done"
    /\ IsNone(auth.credentials)
    /\ ~auth.out.raised

\* C10: a string start/end of two valid timestamps with start <= end
\* validates, its parsed (and stored) start and end are the two timestamps
\* in that order, and the validated value is the string itself.
C10_ClosedInterval ==
    dt.pc = "done"
    => \A a, b \in {"T1", "T1b", "T2"} :
          (dt.value = <<a, "/", b>> /\ Instant(a) <= Instant(b))
          => /\ dt.res.ok
             /\ dt.res.value = <<a, "/", b>>
             /\ dt.res.start = Instant(a) /\ dt.res.end = Instant(b)
             /\ cls_start_date = Instant(a) /\ cls_end_date = Instant(b)

C10_Witness ==
    /\ dt.pc = "done"
    /\ dt.value = <<"T1", "/", "T2">>
    /\ dt.res.ok
    /\ cls_start_date = 1 /\ cls_end_date = 2

\* The timestamp tokens of the datetime alphabet.
TimestampTokens == {"T1", "T1b", "T2"}

\* The open-ended spellings of one side of an interval: ".." and the empty
\* segment.
OpenSides == {<<".", ".">>, <<>>}

\* C11: validate_datetime raises the range-order error exactly when the
\* string is start/end with two valid timestamps and start is after end; an
\* interval with ".." or an empty segment on either side is never rejected
\* for order, and an interval with start = end is accepted.
C11_OrderErrorExactly ==
    dt.pc = "done"
    => /\ (dt.res.err = "begin_after_end")
          <=> (\E a, b \in TimestampTokens :
                  dt.value = <<a, "/", b>> /\ Instant(a) > Instant(b))
       /\ \A o \in OpenSides, side \in SeqsUpTo(DtAlphabet \ {"/"}, 2) :
             (dt.value = o \o <<"/">> \o side \/ dt.value = side \o <<"/">> \o o)
             => dt.res.err # "begin_after_end"
       /\ \A a, b \in TimestampTokens :
             (dt.value = <<a, "/", b>> /\ Instant(a) = Instant(b)) => dt.res.ok

C11_Witness ==
    /\ dt.pc = "done"
    /\ dt.value = <<"T2", "/", "T1">>
    /\ ~dt.res.ok
    /\ dt.res.err = "begin_after_end"

\* The number of "/" separators in a datetime string.
SlashCount(value) == Cardinality({i \in 1..Len(value) : value[i] = "/"})

\* C12: a datetime string of more than two "/"-separated segments fails
\* with the too-many-values error whatever its segments contain, and
\* stores nothing.
C12_TooManySegments ==
    (dt.pc = "done" /\ SlashCount(dt.value) >= 2)
    => /\ ~dt.res.ok
       /\ dt.res.err = "too_many_values"
       /\ cls_start_date = Unset /\ cls_end_date = Unset

C12_Witness ==
    /\ dt.pc = "done"
    /\ dt.value = <<"x", "/", "x", "/", "x">>
    /\ dt.res.err = "too_many_values"

\* C13: a datetime string that is one valid timestamp, with no "/",
\* validates with start = end = that timestamp.
C13_SingleTimestamp ==
    dt.pc = "done"
    => \A a \in TimestampTokens :
          dt.value = <<a>>
          => /\ dt.res.ok
             /\ dt.res.value = <<a>>
             /\ dt.res.start = Instant(a) /\ dt.res.end = Instant(a)
             /\ cls_start_date = Instant(a) /\ cls_end_date = Instant(a)

C13_Witness ==
    /\ dt.pc = "done"
    /\ dt.value = <<"T2">>
    /\ dt.res.ok
    /\ dt.res.start = 2 /\ dt.res.end = 2

\* The four corners of the bbox under validation, whatever its length.
BbXmin == Unwrap(bb.v)[1]
BbYmin == Unwrap(bb.v)[2]
BbXmax == IF Len(Unwrap(bb.v)) = 4 THEN Unwrap(bb.v)[3] ELSE Unwrap(bb.v)[4]
BbYmax == IF Len(Unwrap(bb.v)) = 4 THEN Unwrap(bb.v)[4] ELSE Unwrap(bb.v)[5]
BbIs6 == Len(Unwrap(bb.v)) = 6
BbZmin == Unwrap(bb.v)[3]
BbZmax == Unwrap(bb.v)[6]
BbRan == bb.pc = "done" /\ ~IsNone(bb.v)

\* C14: a 4-value bbox with xmin <= xmax, ymin <= ymax, xmin >= -180,
\* ymin >= -90, xmax <= 180 and ymax <= 90 validates, and the validated
\* value is the same tuple.
C14_ValidBboxUnchanged ==
    (/\ BbRan
     /\ ~BbIs6
     /\ BbXmin <= BbXmax /\ BbYmin <= BbYmax
     /\ BbXmin >= -180 /\ BbYmin >= -90 /\ BbXmax <= 180 /\ BbYmax <= 90)
    => /\ bb.res.ok
       /\ bb.res.value = bb.v

C14_Witness ==
    /\ bb.pc = "done"
    /\ bb.v = Some(<<-180, -90, 180, 90>>)
    /\ bb.res.ok
    /\ bb.res.value = Some(<<-180, -90, 180, 90>>)

\* C15: a bbox with xmax < xmin, of 4 values or of 6 values with
\* zmax >= zmin, fails with the longitude-order error.
C15_LongitudeOrder ==
    (/\ BbRan
     /\ BbXmax < BbXmin
     /\ BbIs6 => BbZmax >= BbZmin)
    => /\ ~bb.res.ok
       /\ bb.res.err = MsgLongitude

C15_Witness ==
    /\ bb.pc = "done"
    /\ bb.v = Some(<<90, 0, 0, 0, 0, 1>>)
    /\ ~bb.res.ok
    /\ bb.res.err = MsgLongitude

\* A message names a constraint when the word is in its text.
Names(msg, word) == \E i \in 1..Len(msg) : msg[i] = word

\* C16: each bbox violation fails with an error naming the constraint
\* violated: zmax < zmin names elevation; else xmax < xmin names longitude;
\* else ymax < ymin names latitude; else a value outside the WGS84 bounds
\* names those bounds.
C16_ErrorNamesViolation ==
    BbRan
    => LET elev == BbIs6 /\ BbZmax < BbZmin
           lon == BbXmax < BbXmin
           lat == BbYmax < BbYmin
           wgs == BbXmin < -180 \/ BbYmin < -90 \/ BbXmax > 180 \/ BbYmax > 90
       IN  /\ elev => (~bb.res.ok /\ Names(bb.res.err, "elevation"))
           /\ (~elev /\ lon) => (~bb.res.ok /\ Names(bb.res.err, "longitude"))
           /\ (~elev /\ ~lon /\ lat) => (~bb.res.ok /\ Names(bb.res.err, "latitude"))
           /\ (~elev /\ ~lon /\ ~lat /\ wgs)
              => (~bb.res.ok /\ Names(bb.res.err, "within")
                             /\ Names(bb.res.err, "(-180,"))

\* C17: on the GET-style models a bbox query string of 4 comma-separated
\* numbers converts to the 4-tuple of their values and one of 6 to the
\* 6-tuple, values in input order; an absent or empty string converts to
\* None.
C17_BboxStringConverts ==
    (bq.pc \in {"built", "error"} /\ bq.model \in GetBboxModels)
    => /\ \A n \in {4, 6} : \A toks \in [1..n -> FloatTokens] :
             bq.query = Some(StrJoin([i \in 1..n |-> <<toks[i]>>], ","))
             => /\ bq.pc = "built"
                /\ bq.bbox = Some([i \in 1..n |-> Float(toks[i])])
       /\ (bq.query = None \/ bq.query = Some(<<>>))
          => (bq.pc = "built" /\ bq.bbox = None)

\* A bbox the validation of the POST model accepts.
BboxValid(b) ==
    LET four == Len(b) = 4
        xmin == b[1]
        ymin == b[2]
        xmax == IF four THEN b[3] ELSE b[4]
        ymax == IF four THEN b[4] ELSE b[5]
    IN  /\ xmin <= xmax /\ ymin <= ymax
        /\ xmin >= -180 /\ ymin >= -90 /\ xmax <= 180 /\ ymax <= 90

\* C18: on every request model that carries a bbox, the bbox the backend
\* callable is invoked with satisfies xmin <= xmax, ymin <= ymax and the
\* WGS84 bounds.
C18_OnlyValidBboxForwarded ==
    (bq.pc = "called" /\ ~IsNone(bq.forwarded)) => BboxValid(Unwrap(bq.forwarded))

\* C19: a positive limit v validates to min(v, 10000): above 10000 it
\* becomes 10000 without an error, from 1 to 10000 it is unchanged.
C19_LimitCapped ==
    (lim.pc = "done" /\ ~IsNone(lim.v) /\ Unwrap(lim.v) > 0)
    => /\ lim.res.ok
       /\ Unwrap(lim.v) > 10000 => lim.res.value = Some(10000)
       /\ Unwrap(lim.v) <= 10000 => lim.res.value = lim.v

C19_Witness ==
    /\ lim.pc = "done"
    /\ lim.v = Some(10001)
    /\ lim.res.ok
    /\ lim.res.value = Some(10000)

\* C20: a list parameter (collections, ids, q, aggregations) given as a
\* non-empty string converts to its comma-separated parts in input order;
\* absent or empty it converts to None, never to an empty list.
C20_ListParts ==
    ls.pc = "done"
    => /\ (IsNone(ls.val) \/ ls.val = Some(<<>>)) => ls.res = None
       /\ ls.res # Some(<<>>)
       /\ (~IsNone(ls.val) /\ ls.val # Some(<<>>))
          => /\ ~IsNone(ls.res)
             /\ StrJoin(Unwrap(ls.res), ",") = Unwrap(ls.val)
             /\ \A i \in 1..Len(Unwrap(ls.res)) :
                   \A j \in 1..Len(Unwrap(ls.res)[i]) : Unwrap(ls.res)[i][j] # ","

C20_Witness ==
    /\ ls.pc = "done"
    /\ ls.param = "aggregations"
    /\ ls.val = Some(<<"a", ",", "b", ",", "a">>)
    /\ ls.res = Some(<< <<"a">>, <<"b">>, <<"a">> >>)

\* The models create_request_model composes in the run under check.
CmModels ==
    <<cm.base_model>> \o ExtensionModels(cm.extensions, cm.request_type) \o cm.mixins

\* C21: with a query-parameter-style base and query-parameter-style
\* extension and mixin models, create_request_model returns a schema whose
\* field names are those of the base and of every extension model (an
\* extension without a model for the request type adds none), and each
\* field has the converter and default one of the models gives it.
C21_GetUnion ==
    (cm.pc = "done" /\ \A i \in 1..Len(CmModels) : CmModels[i].style = "attrs")
    => /\ cm.res.ok
       /\ FieldNames(cm.res.fields)
            = UNION {FieldNames(CmModels[i].fields) : i \in 1..Len(CmModels)}
       /\ \A k \in 1..Len(cm.res.fields) :
             \E i \in 1..Len(CmModels) : \E j \in 1..Len(CmModels[i].fields) :
                cm.res.fields[k] = CmModels[i].fields[j]

\* C22: create_request_model fails with the type-mismatch TypeError, and
\* returns no schema, whenever the models are neither all
\* query-parameter-style nor all body-style.
C22_MixedFails ==
    (/\ cm.pc = "done"
     /\ \E i \in 1..Len(CmModels) : CmModels[i].style # "attrs"
     /\ \E i \in 1..Len(CmModels) : CmModels[i].style # "pydantic")
    => /\ ~cm.res.ok
       /\ cm.res.err = "TypeError: Mixed Request Model types"
       /\ cm.res.fields = <<>>

C22_Witness ==
    /\ cm.pc = "done"
    /\ cm.base_model = BaseSearchGetRequest
    /\ cm.mixins = <<TokenPostMixin>>
    /\ ~cm.res.ok
    /\ cm.res.err = "TypeError: Mixed Request Model types"

\* C23: in body-style composition a field name that two input models
\* define with different types is an error; and the composed schema gives
\* every field the type, validation rule and default of the first model
\* that defines it.
C23_NoSilentShadow ==
    (cm.pc = "done" /\ \A i \in 1..Len(CmModels) : CmModels[i].style = "pydantic")
    => LET all == AllFields(CmModels)
           conflict == \E i, j \in 1..Len(all) :
                           all[i].name = all[j].name /\ all[i].type # all[j].type
       IN  /\ conflict => ~cm.res.ok
           /\ cm.res.ok
              => \A k \in 1..Len(cm.res.fields) :
                    \E i \in 1..Len(all) :
                       /\ all[i] = cm.res.fields[k]
                       /\ \A j \in 1..(i - 1) : all[j].name # all[i].name

\* The number of tokens of s before its first "/".
RECURSIVE LeadingSegment(_)
LeadingSegment(s) ==
    IF s = <<>> \/ Head(s) = "/" THEN 0 ELSE 1 + LeadingSegment(Tail(s))

\* s is an identifier followed by any number of /catalogs/identifier.
RECURSIVE InCatPathGrammar(_)
InCatPathGrammar(s) ==
    LET k == LeadingSegment(s)
    IN  /\ k >= 1
        /\ \/ k = Len(s)
           \/ /\ Len(s) >= k + 3
              /\ s[k + 1] = "/" /\ s[k + 2] = "catalogs" /\ s[k + 3] = "/"
              /\ InCatPathGrammar(SubSeq(s, k + 4, Len(s)))

\* C24: a creation model accepts a cat_path exactly when it is the literal
\* root or is in the grammar ^([^/]+)(/catalogs/[^/]+)*$; an
\* existing-catalog model accepts exactly the strings of the grammar.
C24_CatPathGrammar ==
    uri.pc = "done"
    => /\ uri.model \in CreationModels
          => (uri.accepted <=> (uri.cat_path = <<"root">> \/ InCatPathGrammar(uri.cat_path)))
       /\ uri.model \in ExistingCatalogModels
          => (uri.accepted <=> InCatPathGrammar(uri.cat_path))

\* C25: the endpoint is always async: a coroutine callable is awaited on
\* the loop and a synchronous one runs on a worker thread, never on the
\* loop's thread; and while one request's synchronous call is in progress
\* every other request can take its next step: arrive, call the callable
\* (it gets a worker), or be answered.
C25_LoopStaysFree ==
    /\ ~LoopBlocked
    /\ \A r \in Tasks :
          /\ ep.task[r].pc \in {"on_worker", "queued"} => ep.func_kind = "sync"
          /\ ep.task[r].pc = "awaiting" => ep.func_kind = "coroutine"
    /\ \A r \in Tasks :
          OnWorker = {r}
          => \A o \in Tasks \ {r} :
                /\ ep.task[o].pc = "idle" => ENABLED Arrive(o)
                /\ ep.task[o].pc = "started" => ENABLED CallFunc(o)
                /\ ep.task[o].pc = "queued" => ENABLED AcquireWorker(o)
                /\ ep.task[o].pc = "finished" => ENABLED TaskRespond(o)

\* A request that arrived while another's synchronous call was running is
\* answered while that call is still running.
C25_Witness ==
    \E r, o \in Tasks :
        /\ ep.func_kind = "sync"
        /\ ep.task[r].pc = "on_worker"
        /\ ep.task[o].pc = "responded"
        /\ ep.task[o].arrived_during = r

\* C26: the endpoint invokes the backend callable once per request; when
\* the call raises, the task raises that error, no response is wrapped,
\* and the request takes no further step (the callable is not invoked
\* again).
C26_OnceAndOpaque ==
    /\ [](\A r \in Tasks :
             /\ ep.task[r].calls <= 1
             /\ ep.task[r].pc \in {"awaiting", "on_worker", "finished", "raised", "responded"}
                => ep.task[r].calls = 1
             /\ ep.task[r].pc = "raised"
                => /\ ep.task[r].error = Some("BackendError")
                   /\ ep.task[r].response = None)
    /\ [][\A r \in Tasks : ep.task[r].pc = "raised" => ep'.task[r] = ep.task[r]]_vars

C26_Witness ==
    \E r \in Tasks :
        /\ ep.task[r].pc = "raised"
        /\ ep.task[r].calls = 1
        /\ ep.task[r].error = Some("BackendError")
        /\ ep.task[r].response = None

\* C27: a collection-search POST request without a datetime reports
\* start_date = None and end_date = None, whatever requests were validated
\* before it.
C27_AbsentDatetimeIsNone ==
    \A r \in Reqs :
        (/\ req[r].pc \in {"returned", "raised", "responded"}
         /\ req[r].verb = "POST"
         /\ IsNone(req[r].datetime))
        => /\ req[r].seen_start = NoneDt
           /\ req[r].seen_end = NoneDt

\* C28: a validation that fails (too many segments, an unparsable segment,
\* start after end) leaves the stored start and end as they were before it.
C28_FailureKeepsCache ==
    [][(dt.pc = "start" /\ dt'.pc = "done" /\ ~dt'.res.ok)
       => (cls_start_date' = cls_start_date /\ cls_end_date' = cls_end_date)]_vars

C28_Witness ==
    /\ dt.pc = "done"
    /\ ~dt.res.ok
    /\ dt.res.err = "not_rfc3339"
    /\ cls_start_date = 1 /\ cls_end_date = 2

\* A scope covers a route: an http scope whose path is "*" or is matched by
\* the route's path, and whose method is "*" or the route's method.
ScopeCovers(scope, route) ==
    /\ IsNone(scope.type) \/ scope.type = Some("http")
    /\ \/ scope.path = StarPath
       \/ /\ Head(scope.path) = "/"
          /\ PathMatches(route.template, PathSegs(scope.path))
    /\ scope.method = "*" \/ scope.method = route.method

RECURSIVE Times(_, _)
Times(s, n) == IF n = 0 THEN <<>> ELSE s \o Times(s, n - 1)

\* C29: for every scope and every route it covers that has a dependant, the
\* dependencies are put in front of the dependant's dependencies in the
\* given order and appended to the route's own list; any other route is
\* left as it was.
C29_RouteDependencies ==
    rd.pc = "done" =>
        /\ Len(rd.routes) = Len(rd.before)
        /\ \A i \in 1..Len(rd.before) :
               LET old == rd.before[i]
                   n == Cardinality({k \in 1..Len(rd.scopes) : ScopeCovers(rd.scopes[k], old)})
                   subs == [j \in 1..Len(rd.dependencies) |->
                               SubDependant(rd.dependencies[j], old)]
               IN  IF n = 0 \/ ~old.has_dependant THEN rd.routes[i] = old
                   ELSE rd.routes[i] =
                            [old EXCEPT
                                !.dependant_dependencies = Times(subs, n) \o @,
                                !.dependencies = @ \o Times(rd.dependencies, n)]

C29_Witness ==
    /\ rd.pc = "done"
    /\ \E i \in 1..Len(rd.routes) :
           /\ rd.routes[i].dependencies = <<"d0", "auth", "log">>
           /\ rd.routes[i].dependant_dependencies[3].call = "d0"
    /\ \E i \in 1..Len(rd.routes) :
           rd.routes[i].has_dependant /\ rd.routes[i] = rd.before[i]
    /\ \E k \in 1..Len(rd.scopes) : rd.scopes[k].path = StarPath

Occurrences(list, x) == Cardinality({i \in 1..Len(list) : list[i] = x})
SameContents(a, b) ==
    \A x \in Elements(a) \cup Elements(b) : Occurrences(a, x) = Occurrences(b, x)

\* C30: every call of conformance_classes and of list_conformance_classes
\* returns the base classes and the extensions' classes, with the contents
\* its first call returned, and the shared base list stays as it was.
C30_ConformanceRepeatable ==
    conf.calls >= 1 =>
        /\ Elements(conf.ret) =
               Elements(ExtendWith(BASE_CONFORMANCE_CLASSES, conf.extensions))
        /\ SameContents(conf.ret, Unwrap(conf.first[conf.op]))
        /\ conf.base = BASE_CONFORMANCE_CLASSES

====
